---- MODULE Spec2Model ----
(***************************************************************************)
(* Coordination runtime of project-prometheus: the task state machine      *)
(* (core/domain.py Task, core/base_agent.py BaseAgent.execute_task,        *)
(* services/task_service.py TaskService, the InMemoryRepository) and the   *)
(* InMemoryEventBus (infrastructure/event_bus.py).                         *)
(*                                                                         *)
(* asyncio coroutines are cooperative: a step of the model is the code     *)
(* between two suspension points.  InMemoryRepository.save / get_by_id     *)
(* and asyncio.Queue.put on an unbounded queue never suspend, so the only  *)
(* suspension point inside execute_task is the role-specific action, and   *)
(* the only ones inside the bus processor are the queue wait and the       *)
(* subscriber callback.                                                    *)
(***************************************************************************)
EXTENDS Integers, Sequences, FiniteSets, TLC

\* ------------------------------------------------------------------ bounds
MaxTasks == 1     \* tasks created
MaxCalls == 2     \* execute_task calls made
MaxClock == 1     \* readings of the clock that differ

TaskIds == 1..MaxTasks
Calls == 1..MaxCalls
\* The agent the tasks are submitted to.
AgentIds == {"specialist"}

\* Optional[...] fields: None is the empty tuple, a present value x is <<x>>.
None == << >>
Some(x) == << x >>

\* ------------------------------------------------------------ domain.py
PENDING == "pending"
IN_PROGRESS == "in_progress"
COMPLETED == "completed"
FAILED == "failed"
CANCELLED == "cancelled"
TaskStatus == {PENDING, IN_PROGRESS, COMPLETED, FAILED, CANCELLED}

\* The payloads a role-specific action may return.
Payloads == {"result"}
\* Exception texts a role-specific action may raise (str(e)).
ExcTexts == {"boom"}
\* The lists a _perform_safety_checks hook may return, as the sets of the
\* statuses of their SafetyCheck objects (the base hook returns []).
SafetyResults == { {}, {"passed", "warning"}, {"warning", "failed"} }

VARIABLES
    clock,      \* datetime.utcnow(), as a non-decreasing logical time
    agents,     \* AgentManager._agents: the registered agent identities
    tasks,      \* the Task objects created so far, by TaskId
    storage,    \* InMemoryRepository._storage: the keys present; the value
                \* under key t is a reference to the object tasks[t]
    lastSaved,  \* per task, the field values of the argument of the last save
    calls       \* the execute_task calls: position, task, and what happened
                \* to the task while the call was in flight

taskVars == << clock, agents, tasks, storage, lastSaved, calls >>

\* The InMemoryEventBus (event_bus.py).
VARIABLES
    subscribers,  \* _subscribers: identity -> callback (NoHandler: no key)
    queue,        \* _message_queue
    running,      \* _running
    procs,        \* the _message_processor tasks: "none" (no such task),
                  \* "wait" (in wait_for(queue.get())), "handler" (awaiting
                  \* the callback)
    published,    \* history: number of publish calls so far; numbers the
                  \* messages of the bus claims
    invoked,      \* history: the callback invocations of the bus claims, in
                  \* order
    unheard       \* history: the ids of the queued messages whose receiver
                  \* had no subscriber when they were published

busVars ==
    << subscribers, queue, running, procs, published, invoked, unheard >>

\* The agents on the bus (base_agent.py, agent_themis.py).
VARIABLES
    active,        \* per agent, BaseAgent._is_active
    subordinates,  \* per agent, BaseAgent._subordinates (a list)
    veto,          \* AgentThemis._veto_power_active
    audits,        \* number of perform_comprehensive_audit / emergency_halt
                   \* calls so far
    handled        \* the latest invocation of a BaseAgent._handle_message
                   \* callback: the message, the agent, and whether
                   \* process_message raised; None before the first

agentVars == << active, subordinates, veto, audits, handled >>

\* The AgentManager registry (agent_manager.py) and its BaseAgent objects.
VARIABLES
    managed,       \* the keys of AgentManager._agents, in insertion order
    instances,     \* the BaseAgent objects constructed so far, by identity:
                   \* _type, _is_active, _subordinates, _supervisor
    edits          \* number of add_subordinate / set_supervisor calls made
                   \* on the objects directly, outside the manager

registryVars == << managed, instances, edits >>

vars == << taskVars, busVars, agentVars, registryVars >>

\* Task(agent_id=..., ...): status PENDING, both timestamps utcnow().
Task(agent_id, now) ==
    [ agent_id |-> agent_id, status |-> PENDING, created_at |-> now,
      updated_at |-> now, completed_at |-> None, result |-> None,
      error |-> None ]

mark_in_progress(task, now) ==
    [ task EXCEPT !.status = IN_PROGRESS, !.updated_at = now ]

\* mark_completed that forgets the completion timestamp.
mark_completed_unstamped(task, result, now) ==
    [ task EXCEPT !.status = COMPLETED, !.result = Some(result),
                  !.updated_at = now ]

mark_completed(task, result, now) ==
    [ task EXCEPT !.status = COMPLETED, !.result = Some(result),
                  !.completed_at = Some(now), !.updated_at = now ]

mark_failed(task, error, now) ==
    [ task EXCEPT !.status = FAILED, !.error = Some(error),
                  !.updated_at = now ]

\* ------------------------------------------------------ repositories.py
\* InMemoryRepository.save: _storage[str(entity.id)] = entity (a reference).
save(store, t) == store \cup {t}

\* InMemoryRepository.get_by_id: the stored reference, or None.
get_by_id(store, t) == t \in store

\* InMemoryRepository.delete: removes the key when it is present.
delete(store, t) == store \ {t}

\* ------------------------------------------------------------- calls
\* An execute_task call is idle (not started), in the role-specific action
\* (suspended in _execute_task_internal) or done (returned).  `fresh` records
\* that the task was Pending when the call started, `cancelled` that a
\* cancel_task returned True while the call was suspended in the action.
IdleCall == [ pc |-> "idle", task |-> 0, fresh |-> FALSE, cancelled |-> FALSE ]

InAction(t, fresh) ==
    [ pc |-> "action", task |-> t, fresh |-> fresh, cancelled |-> FALSE ]

Returned(t) ==
    [ pc |-> "done", task |-> t, fresh |-> FALSE, cancelled |-> FALSE ]

\* The call slots are used in order: slot c starts only after slot c - 1.
NextCall(c) ==
    /\ calls[c].pc = "idle"
    /\ \A d \in Calls : d < c => calls[d].pc # "idle"

\* any(check.status == "failed" for check in safety_results)
AnyFailed(safety_results) == "failed" \in safety_results

\* A cancel_task guard that refuses a task already in progress.
CancellablePendingOnly(status) == status = PENDING

\* cancel_task's guard: only pending or in-progress tasks can be cancelled.
Cancellable(status) == status \in {PENDING, IN_PROGRESS}

TaskInit ==
    /\ clock = 0
    /\ agents = AgentIds
    /\ tasks = << >>
    /\ storage = {}
    /\ lastSaved = << >>
    /\ calls = [ c \in Calls |-> IdleCall ]

\* datetime.utcnow() advances between steps.
Tick ==
    /\ clock < MaxClock
    /\ clock' = clock + 1
    /\ UNCHANGED << agents, tasks, storage, lastSaved, calls >>
    /\ UNCHANGED << busVars, agentVars, registryVars >>

\* AgentManager.remove_agent: del self._agents[agent_id].
RemoveAgent(a) ==
    /\ a \in agents
    /\ agents' = agents \ {a}
    /\ UNCHANGED << clock, tasks, storage, lastSaved, calls >>
    /\ UNCHANGED << busVars, agentVars, registryVars >>

\* TaskService.create_task: the agent must exist; a fresh Task is saved.
CreateTask(a) ==
    /\ a \in agents
    /\ Len(tasks) < MaxTasks
    /\ LET t == Len(tasks) + 1
           task == Task(a, clock)
       IN  /\ tasks' = Append(tasks, task)
           /\ storage' = save(storage, t)
           /\ lastSaved' = Append(lastSaved, task)
    /\ UNCHANGED << clock, agents, calls >>
    /\ UNCHANGED << busVars, agentVars, registryVars >>

\* ------------------------------------------------------- base_agent.py
\* BaseAgent.execute_task up to its first suspension point: mark_in_progress,
\* save, the safety pre-check, then either the early return of the failed
\* pre-check (mark_failed, return, no save) or the call of the role-specific
\* action.  by_service tells whether TaskService.execute_task is the caller:
\* it saves the task the agent returned.
AgentExecuteBegin(c, t, by_service, safety_results) ==
    LET started == mark_in_progress(tasks[t], clock)
        rejected == mark_failed(started, "Safety check failed", clock)
    IN  /\ storage' = save(storage, t)
        /\ IF AnyFailed(safety_results)
           THEN /\ tasks' = [ tasks EXCEPT ![t] = rejected ]
                /\ lastSaved' = [ lastSaved EXCEPT ![t] =
                        IF by_service THEN rejected ELSE started ]
                /\ calls' = [ calls EXCEPT ![c] = Returned(t) ]
           ELSE /\ tasks' = [ tasks EXCEPT ![t] = started ]
                /\ lastSaved' = [ lastSaved EXCEPT ![t] = started ]
                /\ calls' = [ calls EXCEPT ![c] =
                        InAction(t, tasks[t].status = PENDING) ]

\* BaseAgent.execute_task called with a Task object directly.
AgentExecuteTask(c, t, safety_results) ==
    /\ NextCall(c)
    /\ t \in DOMAIN tasks
    /\ AgentExecuteBegin(c, t, FALSE, safety_results)
    /\ UNCHANGED << clock, agents >>
    /\ UNCHANGED << busVars, agentVars, registryVars >>

\* An exception handler that records a fixed text instead of str(e).
ActionOutcomeFixedText(task, payload, exc, now) ==
    IF exc = None
    THEN mark_completed(task, payload, now)
    ELSE mark_failed(task, "Task execution failed", now)

\* The task as BaseAgent.execute_task leaves it when the role-specific action
\* returns (exc = None: mark_completed with the action's payload) or raises
\* (exc = Some(text): mark_failed(str(e))).
ActionOutcome(task, payload, exc, now) ==
    IF exc = None
    THEN mark_completed(task, payload, now)
    ELSE mark_failed(task, exc[1], now)

\* The role-specific action returns or raises: mark_completed or mark_failed,
\* save, return the task (TaskService.execute_task then saves the same object
\* once more).
ExecuteFinish(c, payload, exc) ==
    /\ calls[c].pc = "action"
    /\ LET t == calls[c].task
           final == ActionOutcome(tasks[t], payload, exc, clock)
       IN  /\ tasks' = [ tasks EXCEPT ![t] = final ]
           /\ storage' = save(storage, t)
           /\ lastSaved' = [ lastSaved EXCEPT ![t] = final ]
           /\ calls' = [ calls EXCEPT ![c] = Returned(t) ]
    /\ UNCHANGED << clock, agents >>
    /\ UNCHANGED << busVars, agentVars, registryVars >>

\* ----------------------------------------------------- task_service.py
\* TaskService.execute_task: get_task, get_agent, then either the
\* "Agent not found" failure or BaseAgent.execute_task.
ServiceExecuteTask(c, t, safety_results) ==
    /\ NextCall(c)
    /\ get_by_id(storage, t)
    /\ IF tasks[t].agent_id \notin agents
       THEN LET final == mark_failed(tasks[t], "Agent not found", clock)
            IN  /\ tasks' = [ tasks EXCEPT ![t] = final ]
                /\ storage' = save(storage, t)
                /\ lastSaved' = [ lastSaved EXCEPT ![t] = final ]
                /\ calls' = [ calls EXCEPT ![c] = Returned(t) ]
       ELSE AgentExecuteBegin(c, t, TRUE, safety_results)
    /\ UNCHANGED << clock, agents >>
    /\ UNCHANGED << busVars, agentVars, registryVars >>

\* TaskService.execute_task on an id the repository does not hold: get_task
\* returns None and so does execute_task; nothing changes.
ServiceExecuteUnknown(t) ==
    /\ ~ get_by_id(storage, t)
    /\ UNCHANGED vars

\* TaskService.cancel_task, returning `returned`.
CancelTask(t, returned) ==
    /\ returned = (get_by_id(storage, t) /\ Cancellable(tasks[t].status))
    /\ IF returned
       THEN /\ tasks' = [ tasks EXCEPT ![t].status = CANCELLED ]
            /\ storage' = save(storage, t)
            /\ lastSaved' = [ lastSaved EXCEPT ![t] = tasks'[t] ]
            /\ calls' = [ c \in Calls |->
                   IF calls[c].pc = "action" /\ calls[c].task = t
                   THEN [ calls[c] EXCEPT !.cancelled = TRUE ]
                   ELSE calls[c] ]
            /\ UNCHANGED << clock, agents >>
       ELSE UNCHANGED taskVars
    /\ UNCHANGED << busVars, agentVars, registryVars >>

\* TaskService.delete_task, returning `returned`.
DeleteTask(t, returned) ==
    /\ returned = (t \in storage)
    /\ storage' = delete(storage, t)
    /\ UNCHANGED << clock, agents, tasks, lastSaved, calls >>
    /\ UNCHANGED << busVars, agentVars, registryVars >>

TaskNext ==
    \/ Tick
    \/ \E a \in AgentIds : RemoveAgent(a)
    \/ \E a \in AgentIds : CreateTask(a)
    \/ \E c \in Calls, t \in TaskIds, s \in SafetyResults :
            ServiceExecuteTask(c, t, s)
    \/ \E c \in Calls, t \in TaskIds, s \in SafetyResults :
            AgentExecuteTask(c, t, s)
    \/ \E c \in Calls, x \in ExcTexts : ExecuteFinish(c, "none", Some(x))
    \/ \E c \in Calls, r \in Payloads : ExecuteFinish(c, r, None)
    \/ \E t \in TaskIds : ServiceExecuteUnknown(t)
    \/ \E t \in TaskIds, r \in BOOLEAN : CancelTask(t, r)
    \/ \E t \in TaskIds, r \in BOOLEAN : DeleteTask(t, r)


\* ================================================== InMemoryEventBus
\* event_bus.py.  One asyncio.Queue for all receivers, a subscriber map and
\* the _message_processor tasks publish creates.  A processor step is the
\* code between two of its suspension points: the queue wait (wait_for
\* around Queue.get) and the awaited subscriber callback.
MaxMsgs == 2      \* messages published
MaxProcs == 2     \* _message_processor tasks alive at once

BusIds == {"A", "B"}
Handlers == {"hA", "hB"}
NoHandler == "none"
Procs == 1..MaxProcs

\* Message(sender_id, receiver_id, ...); id stands for the uuid and is the
\* position of the message in the order of the publish calls.
Message(id, sender_id, receiver_id) ==
    [ id |-> id, sender_id |-> sender_id, receiver_id |-> receiver_id ]

\* A queue that hands out the newest message first.
QueuePutFront(q, message) == << message >> \o q

\* asyncio.Queue.put: FIFO, unbounded.
QueuePut(q, message) == Append(q, message)

\* A routing that looks the callback up under the sender.
RouteBySender(subs, message) == subs[message.sender_id]

\* callback = self._subscribers[str(message.receiver_id)]
Route(subs, message) == subs[message.receiver_id]

\* A membership test that finds every identity subscribed.
HasSubscriberAlways(subs, receiver_id) == TRUE

\* receiver_id in self._subscribers
HasSubscriber(subs, receiver_id) == subs[receiver_id] # NoHandler

\* while self._running: the processor waits again or its task ends.
LoopCheck(isRunning) == IF isRunning THEN "wait" ELSE "none"

BusInit ==
    /\ subscribers = [ a \in BusIds |-> NoHandler ]
    /\ queue = << >>
    /\ running = FALSE
    /\ procs = [ p \in Procs |-> "none" ]
    /\ published = 0
    /\ invoked = << >>
    /\ unheard = {}

\* InMemoryEventBus.subscribe
Subscribe(agent_id, callback) ==
    /\ subscribers' = [ subscribers EXCEPT ![agent_id] = callback ]
    /\ UNCHANGED << queue, running, procs, published, invoked, unheard >>
    /\ UNCHANGED << taskVars, agentVars, registryVars >>

\* InMemoryEventBus.unsubscribe
Unsubscribe(agent_id) ==
    /\ subscribers' = [ subscribers EXCEPT ![agent_id] = NoHandler ]
    /\ UNCHANGED << queue, running, procs, published, invoked, unheard >>
    /\ UNCHANGED << taskVars, agentVars, registryVars >>

\* InMemoryEventBus.publish: put, then start a processor unless _running.
Publish(sender_id, receiver_id) ==
    /\ published < MaxMsgs
    /\ published' = published + 1
    /\ queue' = QueuePut(queue, Message(published + 1, sender_id, receiver_id))
    /\ IF running
       THEN UNCHANGED << running, procs >>
       ELSE /\ \E p \in Procs : procs[p] = "none"
            /\ running' = TRUE
            /\ LET p == CHOOSE q \in Procs :
                        procs[q] = "none" /\ \A o \in Procs :
                            procs[o] = "none" => q <= o
               IN  procs' = [ procs EXCEPT ![p] = "wait" ]
    /\ unheard' = IF HasSubscriber(subscribers, receiver_id)
                  THEN unheard ELSE unheard \cup {published + 1}
    /\ UNCHANGED << subscribers, invoked >>
    /\ UNCHANGED << taskVars, agentVars, registryVars >>

\* InMemoryEventBus.stop
Stop ==
    /\ running' = FALSE
    /\ UNCHANGED << subscribers, queue, procs, published, invoked, unheard >>
    /\ UNCHANGED << taskVars, agentVars, registryVars >>

\* _message_processor: queue.get() returns a message; it is routed to the
\* callback subscribed under its receiver, or dropped when there is none.
Deliver(p) ==
    /\ procs[p] = "wait"
    /\ queue # << >>
    /\ LET message == Head(queue)
       IN  /\ queue' = Tail(queue)
           /\ unheard' = unheard \ {message.id}
           /\ IF HasSubscriber(subscribers, message.receiver_id)
              THEN /\ invoked' = Append(invoked,
                        [ message |-> message,
                          callback |-> Route(subscribers, message) ])
                   /\ procs' = [ procs EXCEPT ![p] = "handler" ]
              ELSE /\ procs' = [ procs EXCEPT ![p] = LoopCheck(running) ]
                   /\ UNCHANGED invoked
    /\ UNCHANGED << subscribers, running, published >>
    /\ UNCHANGED << taskVars, agentVars, registryVars >>

\* The awaited callback returns, or raises and the processor's except
\* clause logs it; the loop condition is evaluated.
HandlerReturn(p) ==
    /\ procs[p] = "handler"
    /\ procs' = [ procs EXCEPT ![p] = LoopCheck(running) ]
    /\ UNCHANGED << subscribers, queue, running, published, invoked,
                    unheard >>
    /\ UNCHANGED << taskVars, agentVars, registryVars >>

\* wait_for times out on the empty queue after stop(): the loop ends.
TimeoutAfterStop(p) ==
    /\ procs[p] = "wait"
    /\ queue = << >>
    /\ ~ running
    /\ procs' = [ procs EXCEPT ![p] = "none" ]
    /\ UNCHANGED << subscribers, queue, running, published, invoked,
                    unheard >>
    /\ UNCHANGED << taskVars, agentVars, registryVars >>

BusNext ==
    \/ \E a \in BusIds, h \in Handlers : Subscribe(a, h)
    \/ \E a \in BusIds : Unsubscribe(a)
    \/ \E s \in BusIds, r \in BusIds : Publish(s, r)
    \/ Stop
    \/ \E p \in Procs : Deliver(p)
    \/ \E p \in Procs : HandlerReturn(p)
    \/ \E p \in Procs : TimeoutAfterStop(p)


\* ======================================================= the agents
\* agent_manager.py, base_agent.py, agent_themis.py, agent_prometheus.py,
\* agent_daedalus.py on the InMemoryEventBus.  No coroutine of this part
\* suspends: publish, subscribe and unsubscribe of the in-memory bus and the
\* score placeholders of Themis return without waiting, so an audit, an
\* emergency halt and the handling of one message are one step each.
MaxAudits == 1    \* perform_comprehensive_audit / emergency_halt calls made

\* AgentType values of the agents of setup_agent_hierarchy that take part:
\* the coordinator, one specialist and the safety overseer.
PROMETHEUS == "prometheus"
DAEDALUS == "daedalus"
THEMIS == "themis"
\* AgentManager._agents, in insertion order.
ManagedAgents == << PROMETHEUS, DAEDALUS, THEMIS >>
AgentNames == { ManagedAgents[i] : i \in DOMAIN ManagedAgents }
\* The sender of AgentManager.emergency_halt's messages: a fresh AgentId().
SYSTEM == "system"

\* BaseAgent._supervisor after setup_agent_hierarchy.
Supervisor(agent_id) == IF agent_id = PROMETHEUS THEN None ELSE Some(PROMETHEUS)

\* AgentThemis._alert_thresholds, in hundredths.
ThresholdMedium == 60
ThresholdHigh == 80
ThresholdCritical == 90

\* The values the score placeholders of Themis may compute, in hundredths
\* (gaming: the number of indicators found).
AlignmentScores == {50, 85, 95}
GamingIndicators == {0, 5}
GoalDriftScores == {15, 85}
InterpretabilityScores == {75, 95}
ContainmentScores == {70, 90}
\* The return values of _calculate_alignment_score, _detect_gaming_patterns
\* (its length), _calculate_goal_drift, _calculate_interpretability_score
\* and _assess_containment as the repository has them.
Placeholders ==
    [ alignment |-> 85, gaming |-> 0, goal_drift |-> 15,
      interpretability |-> 75, containment |-> 90 ]
\* Scores every check rates "passed" with severity "low".
AllClear ==
    [ alignment |-> 95, gaming |-> 0, goal_drift |-> 15,
      interpretability |-> 95, containment |-> 90 ]
\* The score vectors of the audits: the placeholders' own, and those that
\* differ from the all-clear ones in at most one score.
Scores ==
    { scores \in [ alignment : AlignmentScores, gaming : GamingIndicators,
                   goal_drift : GoalDriftScores,
                   interpretability : InterpretabilityScores,
                   containment : ContainmentScores ] :
        \/ scores = Placeholders
        \/ Cardinality({ k \in DOMAIN scores : scores[k] # AllClear[k] }) <= 1 }

SafetyCheck(check_type, status, severity) ==
    [ check_type |-> check_type, status |-> status, severity |-> severity ]

_audit_behavioral_alignment(alignment_score) ==
    LET status == IF alignment_score < ThresholdHigh THEN "failed"
                  ELSE IF alignment_score < ThresholdMedium THEN "warning"
                  ELSE "passed"
        severity == IF alignment_score < ThresholdCritical THEN "critical"
                    ELSE IF alignment_score < ThresholdHigh THEN "high"
                    ELSE IF alignment_score < ThresholdMedium THEN "medium"
                    ELSE "low"
    IN  SafetyCheck("behavioral_alignment", status, severity)

_audit_specification_gaming(indicators) ==
    IF indicators > 4
    THEN SafetyCheck("specification_gaming", "failed", "high")
    ELSE IF indicators > 2
    THEN SafetyCheck("specification_gaming", "warning", "medium")
    ELSE SafetyCheck("specification_gaming", "passed", "low")

_audit_goal_alignment(goal_drift_score) ==
    IF goal_drift_score > ThresholdHigh
    THEN SafetyCheck("goal_alignment", "failed", "high")
    ELSE IF goal_drift_score > ThresholdMedium
    THEN SafetyCheck("goal_alignment", "warning", "medium")
    ELSE SafetyCheck("goal_alignment", "passed", "low")

_audit_interpretability(interpretability_score) ==
    IF interpretability_score < ThresholdHigh
    THEN SafetyCheck("interpretability", "failed", "high")
    ELSE IF interpretability_score < ThresholdMedium
    THEN SafetyCheck("interpretability", "warning", "medium")
    ELSE SafetyCheck("interpretability", "passed", "low")

\* A containment audit that rates a low score high instead of critical.
_audit_containment_lenient(containment_score) ==
    IF containment_score < ThresholdHigh
    THEN SafetyCheck("containment", "failed", "high")
    ELSE SafetyCheck("containment", "passed", "low")

_audit_containment(containment_score) ==
    IF containment_score < ThresholdHigh
    THEN SafetyCheck("containment", "failed", "critical")
    ELSE SafetyCheck("containment", "passed", "low")

\* audit_results of perform_comprehensive_audit, in the order of the appends.
AuditResults(scores) ==
    << _audit_behavioral_alignment(scores.alignment),
       _audit_specification_gaming(scores.gaming),
       _audit_goal_alignment(scores.goal_drift),
       _audit_interpretability(scores.interpretability),
       _audit_containment(scores.containment) >>

\* [check for check in audit_results if check.severity == "critical"]
CriticalFailures(audit_results) ==
    SelectSeq(audit_results, LAMBDA check : check.severity = "critical")

\* What send_message is called with: the receiver, the message_type and the
\* "type" entry of the content ("" when the content has none).
Send(receiver_id, message_type, type) ==
    [ receiver_id |-> receiver_id, message_type |-> message_type, type |-> type ]

\* broadcast_to_subordinates: one send_message per entry of _subordinates.
broadcast_to_subordinates(subs, message_type, type) ==
    [ i \in DOMAIN subs |-> Send(subs[i], message_type, type) ]

\* report to the supervisor, when there is one.
SendToSupervisor(agent_id, message_type, type) ==
    IF Supervisor(agent_id) = None THEN << >>
    ELSE << Send(Supervisor(agent_id)[1], message_type, type) >>

\* A veto that also halts every subordinate of the overseer.
_exercise_veto_power_on_all(target, subs) ==
    << Send(target, "emergency_command", "emergency_halt") >>
    \o broadcast_to_subordinates(subs, "emergency_command", "emergency_halt")
    \o broadcast_to_subordinates(subs, "safety_alert", "veto_notification")

\* _exercise_veto_power: the halt command to the target, then the veto
\* notification to the overseer's subordinates.
_exercise_veto_power(target, subs) ==
    << Send(target, "emergency_command", "emergency_halt") >>
    \o broadcast_to_subordinates(subs, "safety_alert", "veto_notification")

\* A veto condition that does not read the flag.
VetoAppliesAlways(violations, veto_power_active) == violations # << >>

\* if critical_violations and self._veto_power_active
VetoApplies(violations, veto_power_active) ==
    violations # << >> /\ veto_power_active

\* _trigger_safety_alert: the alert to the supervisor, then the veto.
_trigger_safety_alert(violations, target, subs, veto_power_active) ==
    SendToSupervisor(THEMIS, "safety_alert", "")
    \o IF VetoApplies(violations, veto_power_active)
       THEN _exercise_veto_power(target, subs)
       ELSE << >>

\* The send_message calls of one perform_comprehensive_audit, in order: the
\* two audit requests, then the alert when a check is critical.
AuditSends(target, scores, subs, veto_power_active) ==
    << Send(target, "safety_audit", "behavior_audit_request"),
       Send(target, "safety_audit", "interpretability_audit") >>
    \o IF CriticalFailures(AuditResults(scores)) # << >>
       THEN _trigger_safety_alert(CriticalFailures(AuditResults(scores)),
                                  target, subs, veto_power_active)
       ELSE << >>

\* _process_message_internal of the agent's class: the send_message calls it
\* makes.  Prometheus broadcasts a safety alert to its subordinates; no class
\* has a branch for "emergency_command" or "emergency_halt".
_process_message_internal(agent_id, message, subs) ==
    IF agent_id = PROMETHEUS /\ message.message_type = "safety_alert"
    THEN broadcast_to_subordinates(subs, "safety_alert", "safety_alert")
    ELSE << >>

\* send_message: Message(sender_id=self._id, receiver_id=..., content=...,
\* message_type=...)
AgentMessage(sender_id, send) ==
    [ sender_id |-> sender_id, receiver_id |-> send.receiver_id,
      message_type |-> send.message_type, type |-> send.type ]

\* The queue after the publish calls of the sends, in order.
RECURSIVE PutAll(_, _, _)
PutAll(q, sender_id, sends) ==
    IF sends = << >> THEN q
    ELSE PutAll(QueuePut(q, AgentMessage(sender_id, Head(sends))),
                sender_id, Tail(sends))

\* publish starts a _message_processor unless one is running.
ProcsAfterPublish(ps, sends) ==
    IF sends = << >> \/ running THEN ps
    ELSE LET p == CHOOSE q \in Procs :
                    ps[q] = "none" /\ \A o \in Procs :
                        ps[o] = "none" => q <= o
         IN  [ ps EXCEPT ![p] = "wait" ]

\* The bus after sender_id has published the sends, in order, on the queue q
\* with the processors ps.
PublishAll(q, ps, sender_id, sends) ==
    /\ queue' = PutAll(q, sender_id, sends)
    /\ running' = (running \/ sends # << >>)
    /\ procs' = ProcsAfterPublish(ps, sends)

\* A processor that dies of an exception of the callback.
AfterCallbackCrash(raised, isRunning) ==
    IF raised THEN "none" ELSE LoopCheck(isRunning)

\* The processor after the awaited callback: it returned, or it raised and
\* `except Exception` logged it; either way the loop goes on.
AfterCallback(raised, isRunning) == LoopCheck(isRunning)

\* The agents as setup_agent_hierarchy leaves them: created, started, the
\* specialist and the overseer under the coordinator.
AgentInit ==
    /\ active = [ a \in AgentNames |-> TRUE ]
    /\ subordinates = [ a \in AgentNames |->
            IF a = PROMETHEUS THEN << DAEDALUS, THEMIS >> ELSE << >> ]
    /\ veto = TRUE
    /\ audits = 0
    /\ handled = None

\* The bus of the agents: every agent subscribed by its start().  The
\* callback of agent a is its bound method a._handle_message, written a.
AgentBusInit ==
    /\ subscribers = [ a \in AgentNames |-> a ]
    /\ queue = << >>
    /\ running = FALSE
    /\ procs = [ p \in Procs |-> "none" ]
    /\ published = 0
    /\ invoked = << >>
    /\ unheard = {}

\* AgentManager.start_agent -> BaseAgent.start
StartAgent(a) ==
    /\ active' = [ active EXCEPT ![a] = TRUE ]
    /\ subscribers' = [ subscribers EXCEPT ![a] = a ]
    /\ UNCHANGED << subordinates, veto, audits, handled >>
    /\ UNCHANGED << queue, running, procs, published, invoked, unheard >>
    /\ UNCHANGED << taskVars, registryVars >>

\* AgentManager.stop_agent -> BaseAgent.stop
StopAgent(a) ==
    /\ active' = [ active EXCEPT ![a] = FALSE ]
    /\ subscribers' = [ subscribers EXCEPT ![a] = NoHandler ]
    /\ UNCHANGED << subordinates, veto, audits, handled >>
    /\ UNCHANGED << queue, running, procs, published, invoked, unheard >>
    /\ UNCHANGED << taskVars, registryVars >>

\* BaseAgent.add_subordinate on the overseer.
AddSubordinate(subordinate_id) ==
    /\ \A i \in DOMAIN subordinates[THEMIS] :
            subordinates[THEMIS][i] # subordinate_id
    /\ subordinates' = [ subordinates EXCEPT
            ![THEMIS] = Append(@, subordinate_id) ]
    /\ UNCHANGED << active, veto, audits, handled >>
    /\ UNCHANGED busVars
    /\ UNCHANGED << taskVars, registryVars >>

\* The embedding code sets AgentThemis._veto_power_active.
SetVetoPower(flag) ==
    /\ veto' = flag
    /\ UNCHANGED << active, subordinates, audits, handled >>
    /\ UNCHANGED busVars
    /\ UNCHANGED << taskVars, registryVars >>

\* AgentThemis.perform_comprehensive_audit(target), the placeholders
\* computing `scores`; it returns AuditResults(scores).
PerformAudit(target, scores) ==
    /\ audits < MaxAudits
    /\ audits' = audits + 1
    /\ PublishAll(queue, procs, THEMIS,
                  AuditSends(target, scores, subordinates[THEMIS], veto))
    /\ UNCHANGED << active, subordinates, veto, handled >>
    /\ UNCHANGED << subscribers, published, invoked, unheard >>
    /\ UNCHANGED << taskVars, registryVars >>

\* _message_processor dequeues a message and awaits the callback of its
\* receiver, BaseAgent._handle_message: process_message, then the publish of
\* the response; `raises` says that process_message raised, which
\* _handle_message catches and logs.  Without subscriber the message is
\* dropped.
HandleMessage(p, raises) ==
    /\ procs[p] = "wait"
    /\ queue # << >>
    /\ LET message == Head(queue)
           subscribed == HasSubscriber(subscribers, message.receiver_id)
           agent_id == Route(subscribers, message)
           sends == IF subscribed /\ ~ raises
                    THEN _process_message_internal(agent_id, message,
                                                   subordinates[agent_id])
                    ELSE << >>
       IN  /\ raises => subscribed
           /\ PublishAll(Tail(queue),
                         [ procs EXCEPT ![p] = AfterCallback(raises, running) ],
                         agent_id, sends)
           /\ handled' = IF subscribed
                         THEN Some([ message |-> message,
                                     callback |-> agent_id, raised |-> raises ])
                         ELSE handled
    /\ UNCHANGED << active, subordinates, veto, audits >>
    /\ UNCHANGED << subscribers, published, invoked, unheard >>
    /\ UNCHANGED << taskVars, registryVars >>

\* A halt loop that gives up at the first stop() that raises: the agents
\* stop() was called on.
StopAllUntilError(order, failing) ==
    { order[i] : i \in { j \in DOMAIN order :
        \A k \in DOMAIN order : k < j => order[k] \notin failing } }

\* The agents emergency_halt calls stop() on: all of them, each call in its
\* own try/except.
StopAll(order, failing) == { order[i] : i \in DOMAIN order }

\* An emergency halt whose stop() calls clear the active flag and leave the
\* bus subscriptions in place.
EmergencyHaltSubscribed(failing) ==
    /\ audits < MaxAudits
    /\ audits' = audits + 1
    /\ active' = [ a \in AgentNames |-> FALSE ]
    /\ PublishAll(queue, procs, SYSTEM,
          [ i \in DOMAIN ManagedAgents |->
              Send(ManagedAgents[i], "emergency_halt", "emergency_halt") ])
    /\ UNCHANGED << subscribers, subordinates, veto, handled >>
    /\ UNCHANGED << published, invoked, unheard >>
    /\ UNCHANGED << taskVars, registryVars >>

\* AgentManager.emergency_halt: stop() on every agent, then one
\* emergency_halt message to each.  `failing` are the agents whose stop()
\* raises, which it can only do in unsubscribe, after clearing _is_active.
EmergencyHalt(failing) ==
    /\ audits < MaxAudits
    /\ audits' = audits + 1
    /\ LET stopped == StopAll(ManagedAgents, failing)
           subs == [ a \in AgentNames |->
                        IF a \in stopped \ failing THEN NoHandler
                        ELSE subscribers[a] ]
       IN  /\ active' = [ a \in AgentNames |->
                            IF a \in stopped THEN FALSE ELSE active[a] ]
           /\ subscribers' = subs
           /\ PublishAll(queue, procs, SYSTEM,
                  [ i \in DOMAIN ManagedAgents |->
                      Send(ManagedAgents[i], "emergency_halt",
                           "emergency_halt") ])
    /\ UNCHANGED << subordinates, veto, handled >>
    /\ UNCHANGED << published, invoked, unheard >>
    /\ UNCHANGED << taskVars, registryVars >>

AgentNext ==
    \/ \E a \in AgentNames : StartAgent(a)
    \/ \E a \in AgentNames : StopAgent(a)
    \/ AddSubordinate(DAEDALUS)
    \/ \E flag \in BOOLEAN : SetVetoPower(flag)
    \/ \E target \in AgentNames, scores \in Scores : PerformAudit(target, scores)
    \/ \E p \in Procs : HandleMessage(p, FALSE)
    \/ \E failing \in SUBSET AgentNames : EmergencyHalt(failing)

\* The agents while they all stay started: audits and message handling only.
AgentRunNext ==
    \/ AddSubordinate(DAEDALUS)
    \/ \E flag \in BOOLEAN : SetVetoPower(flag)
    \/ \E target \in AgentNames, scores \in Scores : PerformAudit(target, scores)
    \/ \E p \in Procs : HandleMessage(p, FALSE)
    \/ \E p \in Procs : HandleMessage(p, TRUE)


\* ===================================================== the registry
\* AgentManager (agent_manager.py) creating, wiring, starting, stopping and
\* removing BaseAgent objects (base_agent.py).  The calls of the manager on
\* the in-memory bus never suspend, so each is one step.
MaxAgents == 4    \* BaseAgent objects constructed
MaxEdits == 1     \* direct add_subordinate / set_supervisor calls made

\* AgentId values, in the order of construction.
ObjectIds == 1..MaxAgents

LOGOS == "logos"
ODYSSEUS == "odysseus"
\* The members of the enum AgentType, each written as its value.
AgentType == {PROMETHEUS, DAEDALUS, LOGOS, ODYSSEUS, THEMIS}

\* str(member) of a plain Enum: the class name, a dot, the member name.
EnumStr(agent_type) ==
    CASE agent_type = PROMETHEUS -> "AgentType.PROMETHEUS"
      [] agent_type = DAEDALUS -> "AgentType.DAEDALUS"
      [] agent_type = LOGOS -> "AgentType.LOGOS"
      [] agent_type = ODYSSEUS -> "AgentType.ODYSSEUS"
      [] agent_type = THEMIS -> "AgentType.THEMIS"

\* The types create_agent is called with from outside the manager.
CreatedTypes == {LOGOS, THEMIS}

\* The strings get_agent_by_type is called with.
TypeQueries ==
    { "prometheus", "daedalus", "logos", "odysseus", "themis",
      "Prometheus", "THEMIS", "AgentType.THEMIS" }

\* str.lower() on the strings of the model.
Lower(text) ==
    CASE text = "Prometheus" -> "prometheus"
      [] text = "THEMIS" -> "themis"
      [] text = "AgentType.PROMETHEUS" -> "agenttype.prometheus"
      [] text = "AgentType.DAEDALUS" -> "agenttype.daedalus"
      [] text = "AgentType.LOGOS" -> "agenttype.logos"
      [] text = "AgentType.ODYSSEUS" -> "agenttype.odysseus"
      [] text = "AgentType.THEMIS" -> "agenttype.themis"
      [] OTHER -> text

\* BaseAgent.__init__
BaseAgent(agent_type) ==
    [ type |-> agent_type, is_active |-> FALSE, subordinates |-> << >>,
      supervisor |-> None ]

\* BaseAgent.start / stop: the flag (the bus call is subscribe / unsubscribe).
start(objects, agent_id) == [ objects EXCEPT ![agent_id].is_active = TRUE ]
\* A stop() that flips the flag.
stop_toggling(objects, agent_id) ==
    [ objects EXCEPT ![agent_id].is_active = ~ @ ]
stop(objects, agent_id) == [ objects EXCEPT ![agent_id].is_active = FALSE ]

\* The callback an agent subscribes: its bound method _handle_message.
HandlerOf(agent_id) == ToString(agent_id)

\* InMemoryEventBus.subscribe / unsubscribe on the dict _subscribers.
subscribe(subs, agent_id, callback) ==
    [ a \in DOMAIN subs \cup {agent_id} |->
        IF a = agent_id THEN callback ELSE subs[a] ]
unsubscribe(subs, agent_id) == [ subs EXCEPT ![agent_id] = NoHandler ]

\* BaseAgent.add_subordinate: appended unless already in the list.
add_subordinate(objects, agent_id, subordinate_id) ==
    IF \E i \in DOMAIN objects[agent_id].subordinates :
            objects[agent_id].subordinates[i] = subordinate_id
    THEN objects
    ELSE [ objects EXCEPT ![agent_id].subordinates = Append(@, subordinate_id) ]

\* BaseAgent.remove_subordinate: list.remove when it is in the list.
remove_subordinate(objects, agent_id, subordinate_id) ==
    [ objects EXCEPT ![agent_id].subordinates =
        SelectSeq(@, LAMBDA other : other # subordinate_id) ]

\* BaseAgent.set_supervisor
set_supervisor(objects, agent_id, supervisor_id) ==
    [ objects EXCEPT ![agent_id].supervisor = Some(supervisor_id) ]

\* The registry: _agents, the objects, and the bus subscriptions.
Registry(keys, objects, subs) ==
    [ managed |-> keys, instances |-> objects, subscribers |-> subs ]

\* get_agent_by_type: the first agent of _agents.values() with
\* str(agent.type).lower() == agent_type.lower(), or None.
get_agent_by_type(registry, agent_type) ==
    LET found == SelectSeq(registry.managed, LAMBDA agent_id :
            Lower(EnumStr(registry.instances[agent_id].type))
                = Lower(agent_type))
    IN  IF found = << >> THEN None ELSE Some(Head(found))

\* The identity of the next BaseAgent constructed.
NewId(registry) == Len(registry.instances) + 1

\* create_agent: construct, store under the identity, start.
Created(registry, agent_type) ==
    LET agent_id == NewId(registry)
    IN  Registry(Append(registry.managed, agent_id),
                 start(Append(registry.instances, BaseAgent(agent_type)),
                       agent_id),
                 subscribe(registry.subscribers, agent_id, HandlerOf(agent_id)))

\* An edge wiring that also lists the supervisor under its new subordinate.
WiredBothWays(registry, supervisor_id, agent_id) ==
    [ registry EXCEPT !.instances =
        add_subordinate(
            set_supervisor(add_subordinate(@, supervisor_id, agent_id),
                           agent_id, supervisor_id),
            agent_id, supervisor_id) ]

\* supervisor.add_subordinate(agent.id); agent.set_supervisor(supervisor.id)
Wired(registry, supervisor_id, agent_id) ==
    [ registry EXCEPT !.instances =
        set_supervisor(add_subordinate(@, supervisor_id, agent_id),
                       agent_id, supervisor_id) ]

\* subordinate_types of setup_agent_hierarchy.
SubordinateTypes == << DAEDALUS, ODYSSEUS, THEMIS >>

\* The loop over subordinate_types: a type no agent is found for is created
\* and wired under prometheus_agent.
RECURSIVE WithSubordinates(_, _, _)
WithSubordinates(registry, prometheus_id, agent_types) ==
    IF agent_types = << >> THEN registry
    ELSE LET agent_type == Head(agent_types)
             existing_agent == get_agent_by_type(registry, agent_type)
             next == IF existing_agent = None
                     THEN Wired(Created(registry, agent_type),
                                prometheus_id, NewId(registry))
                     ELSE registry
         IN  WithSubordinates(next, prometheus_id, Tail(agent_types))

\* The last part of setup_agent_hierarchy: Logos under Daedalus.
WithLogos(registry) ==
    LET logos_agent == get_agent_by_type(registry, "logos")
        daedalus_agent == get_agent_by_type(registry, "daedalus")
    IN  IF logos_agent = None /\ daedalus_agent # None
        THEN Wired(Created(registry, LOGOS), daedalus_agent[1],
                   NewId(registry))
        ELSE registry

\* The registry after setup_agent_hierarchy.
HierarchySetUp(registry) ==
    LET prometheus_agent == get_agent_by_type(registry, "prometheus")
        with_master == IF prometheus_agent = None
                       THEN Created(registry, PROMETHEUS) ELSE registry
        prometheus_id == IF prometheus_agent = None THEN NewId(registry)
                         ELSE prometheus_agent[1]
    IN  WithLogos(WithSubordinates(with_master, prometheus_id,
                                    SubordinateTypes))

\* The keys of _agents.
Managed == { managed[i] : i \in DOMAIN managed }

\* _remove_from_hierarchy: remove_subordinate on every agent still managed.
RECURSIVE _remove_from_hierarchy(_, _, _)
_remove_from_hierarchy(objects, keys, agent_id) ==
    IF keys = << >> THEN objects
    ELSE _remove_from_hierarchy(
            remove_subordinate(objects, Head(keys), agent_id),
            Tail(keys), agent_id)

\* The registry of a new AgentManager.
RegistryInit ==
    /\ managed = << >>
    /\ instances = << >>
    /\ edits = 0

\* The bus of a new AgentManager: nobody subscribed.
RegistryBusInit ==
    /\ subscribers = [ a \in ObjectIds |-> NoHandler ]
    /\ queue = << >>
    /\ running = FALSE
    /\ procs = [ p \in Procs |-> "none" ]
    /\ published = 0
    /\ invoked = << >>
    /\ unheard = {}

\* The step takes the registry to `registry`.
Becomes(registry) ==
    /\ managed' = registry.managed
    /\ instances' = registry.instances
    /\ subscribers' = registry.subscribers
    /\ UNCHANGED << queue, running, procs, published, invoked, unheard >>
    /\ UNCHANGED << taskVars, agentVars >>

\* AgentManager.create_agent(agent_type)
create_agent(agent_type) ==
    /\ Len(instances) < MaxAgents
    /\ Becomes(Created(Registry(managed, instances, subscribers), agent_type))
    /\ UNCHANGED edits

\* AgentManager.setup_agent_hierarchy()
setup_agent_hierarchy ==
    LET registry == HierarchySetUp(Registry(managed, instances, subscribers))
    IN  /\ Len(registry.instances) <= MaxAgents
        /\ Becomes(registry)
        /\ UNCHANGED edits

\* AgentManager.remove_agent(agent_id) returning True.
remove_agent(agent_id) ==
    /\ agent_id \in Managed
    /\ LET keys == SelectSeq(managed, LAMBDA other : other # agent_id)
       IN  Becomes(Registry(keys,
                _remove_from_hierarchy(stop(instances, agent_id), keys,
                                       agent_id),
                unsubscribe(subscribers, agent_id)))
    /\ UNCHANGED edits

\* AgentManager.start_agent(agent_id) returning True.
start_agent(agent_id) ==
    /\ agent_id \in Managed
    /\ Becomes(Registry(managed, start(instances, agent_id),
                        subscribe(subscribers, agent_id, HandlerOf(agent_id))))
    /\ UNCHANGED edits

\* AgentManager.stop_agent(agent_id) returning True.
stop_agent(agent_id) ==
    /\ agent_id \in Managed
    /\ Becomes(Registry(managed, stop(instances, agent_id),
                        unsubscribe(subscribers, agent_id)))
    /\ UNCHANGED edits

\* agent.add_subordinate(subordinate_id), called on the object directly.
EdgeAddSubordinate(agent_id, subordinate_id) ==
    /\ edits < MaxEdits
    /\ agent_id \in Managed
    /\ subordinate_id \in Managed
    /\ Becomes(Registry(managed,
                add_subordinate(instances, agent_id, subordinate_id),
                subscribers))
    /\ edits' = edits + 1

\* agent.set_supervisor(supervisor_id), called on the object directly.
EdgeSetSupervisor(agent_id, supervisor_id) ==
    /\ edits < MaxEdits
    /\ agent_id \in Managed
    /\ supervisor_id \in Managed
    /\ Becomes(Registry(managed,
                set_supervisor(instances, agent_id, supervisor_id),
                subscribers))
    /\ edits' = edits + 1

RegistryNext ==
    \/ \E agent_type \in CreatedTypes : create_agent(agent_type)
    \/ setup_agent_hierarchy
    \/ \E agent_id \in ObjectIds : remove_agent(agent_id)
    \/ \E agent_id \in ObjectIds : start_agent(agent_id)
    \/ \E agent_id \in ObjectIds : stop_agent(agent_id)

\* The registry with the edges of the hierarchy also changed directly.
HierarchyNext ==
    \/ \E agent_type \in CreatedTypes : create_agent(agent_type)
    \/ setup_agent_hierarchy
    \/ \E a \in ObjectIds, s \in ObjectIds : EdgeAddSubordinate(a, s)
    \/ \E a \in ObjectIds, s \in ObjectIds : EdgeSetSupervisor(a, s)

Init == TaskInit /\ BusInit /\ AgentInit /\ RegistryInit

\* The system after setup_agent_hierarchy and the start of every agent.
AgentSystemInit == TaskInit /\ AgentBusInit /\ AgentInit /\ RegistryInit

\* A new AgentManager with its bus.
RegistrySystemInit == TaskInit /\ RegistryBusInit /\ AgentInit /\ RegistryInit

\* The registry driven through the manager's methods.
RegistrySpec == RegistrySystemInit /\ [][RegistryNext]_vars

\* The registry with direct edge mutations.
HierarchySpec == RegistrySystemInit /\ [][HierarchyNext]_vars

\* ------------------------------------------- the message exchange
\* The five roles on one bus, each handler with every branch of its class's
\* _process_message_internal and every message these branches send.
MaxExternal == 1   \* messages published from outside the handlers

\* The agents of the hierarchy, named by their AgentType values.
Roles == { PROMETHEUS, DAEDALUS, LOGOS, ODYSSEUS, THEMIS }

\* _subordinates as the wiring of setup_agent_hierarchy is written: three
\* agents under Prometheus, Logos under Daedalus.
CanonicalSubordinates(agent_id) ==
    CASE agent_id = PROMETHEUS -> << DAEDALUS, ODYSSEUS, THEMIS >>
      [] agent_id = DAEDALUS -> << LOGOS >>
      [] OTHER -> << >>

\* return Message(receiver_id=message.sender_id, message_type=...)
Reply(message, message_type) == << Send(message.sender_id, message_type, "") >>

\* AgentPrometheus._process_message_internal.  `present` for agent_report:
\* every subordinate has reported, the objectives are met and a next phase
\* exists, so advance_to_next_phase broadcasts the project update.
PrometheusSends(message, present) ==
    CASE message.message_type = "agent_report" ->
            IF present
            THEN broadcast_to_subordinates(CanonicalSubordinates(PROMETHEUS),
                                           "project_update", "phase_transition")
            ELSE << >>
      [] message.message_type = "safety_alert" ->
            broadcast_to_subordinates(CanonicalSubordinates(PROMETHEUS),
                                      "safety_alert", "safety_alert")
      [] message.message_type = "resource_request" ->
            << Send(message.sender_id, "resource_management",
                    "resource_allocation") >>
      [] OTHER -> << >>

\* AgentDaedalus._process_message_internal.  `present`: the content names a
\* known pathway (explore_architectural_pathway then reports to the
\* supervisor), or asks for a symbolic refinement.
DaedalusSends(message, present) ==
    CASE message.message_type = "architecture_feedback" ->
            Reply(message, "architecture_update")
      [] message.message_type = "pathway_exploration_request" ->
            (IF present
             THEN SendToSupervisor(DAEDALUS, "report",
                                   "pathway_exploration_complete")
             ELSE << >>)
            \o Reply(message, "pathway_exploration_response")
      [] message.message_type = "collaboration_request" ->
            IF present
            THEN << Send(message.sender_id, "collaboration_response",
                         "collaboration_accept") >>
            ELSE << >>
      [] OTHER -> << >>

\* AgentLogos._process_message_internal.  `present`: the content holds a
\* reasoning trace, or asks for a symbolic refinement.
LogosSends(message, present) ==
    CASE message.message_type = "verification_request" ->
            IF present THEN Reply(message, "verification_response") ELSE << >>
      [] message.message_type = "knowledge_query" ->
            Reply(message, "knowledge_response")
      [] message.message_type = "collaboration_request" ->
            IF present THEN Reply(message, "collaboration_response")
            ELSE << >>
      [] OTHER -> << >>

\* AgentOdysseus._process_message_internal.  `present`: the content names an
\* environment or a tool; explore_environment and
\* generate_world_model_update report to the supervisor.
OdysseusSends(message, present) ==
    CASE message.message_type = "exploration_request" ->
            IF present
            THEN SendToSupervisor(ODYSSEUS, "report", "exploration_complete")
                 \o Reply(message, "exploration_response")
            ELSE << >>
      [] message.message_type = "tool_use_request" ->
            IF present THEN Reply(message, "tool_use_response") ELSE << >>
      [] message.message_type = "world_model_request" ->
            SendToSupervisor(ODYSSEUS, "report", "world_model_update")
            \o Reply(message, "world_model_response")
      [] OTHER -> << >>

\* AgentThemis._process_message_internal: the audit of content's
\* target_agent with the scores the placeholders compute, then the response.
ThemisSends(message, target, scores, veto_power_active) ==
    CASE message.message_type = "audit_request" ->
            AuditSends(target, scores, CanonicalSubordinates(THEMIS),
                       veto_power_active)
            \o Reply(message, "audit_response")
      [] OTHER -> << >>

\* _process_message_internal of the agent's class: every message the
\* handler publishes, the returned response last.
RoleSends(agent_id, message, target, scores, present) ==
    CASE agent_id = PROMETHEUS -> PrometheusSends(message, present)
      [] agent_id = DAEDALUS -> DaedalusSends(message, present)
      [] agent_id = LOGOS -> LogosSends(message, present)
      [] agent_id = ODYSSEUS -> OdysseusSends(message, present)
      [] agent_id = THEMIS -> ThemisSends(message, target, scores, veto)

\* A handler that answers every message it publishes nothing for with an
\* error message to the sender.
process_message_rejecting(agent_id, message, target, scores, present) ==
    LET sends == RoleSends(agent_id, message, target, scores, present)
    IN  IF sends = << >> THEN Reply(message, "error") ELSE sends

\* BaseAgent.process_message: the class's _process_message_internal.
process_message(agent_id, message, target, scores, present) ==
    RoleSends(agent_id, message, target, scores, present)

\* The message kinds _process_message_internal of the agent's class has a
\* branch for; any other kind falls through to `return None`.
HandledKinds(agent_id) ==
    CASE agent_id = PROMETHEUS ->
            { "agent_report", "safety_alert", "resource_request" }
      [] agent_id = DAEDALUS ->
            { "architecture_feedback", "pathway_exploration_request",
              "collaboration_request" }
      [] agent_id = LOGOS ->
            { "verification_request", "knowledge_query",
              "collaboration_request" }
      [] agent_id = ODYSSEUS ->
            { "exploration_request", "tool_use_request",
              "world_model_request" }
      [] agent_id = THEMIS -> { "audit_request", "safety_report" }
      [] OTHER -> { }

\* The messages published from outside: to each role every kind its class
\* has a branch for, and one kind ("general", send_message's default) that
\* it has none for.
ExternalMessages ==
    { m \in [ receiver_id : Roles,
              message_type : UNION { HandledKinds(a) : a \in Roles }
                                \cup { "general" } ] :
        \/ m.message_type \in HandledKinds(m.receiver_id)
        \/ m.message_type = "general" }

\* The scores of the audits a handler runs: the placeholders' own (a
\* critical check) and the all-clear ones.
ExchangeScores == { Placeholders, AllClear }

\* Every role started and subscribed; the outside sender is no subscriber.
ExchangeBusInit ==
    /\ subscribers = [ a \in Roles \cup {SYSTEM} |->
                        IF a \in Roles THEN a ELSE NoHandler ]
    /\ queue = << >>
    /\ running = FALSE
    /\ procs = [ p \in Procs |-> "none" ]
    /\ published = 0
    /\ invoked = << >>
    /\ unheard = {}

ExchangeInit == TaskInit /\ ExchangeBusInit /\ AgentInit /\ RegistryInit

\* A publish from outside the handlers: any sender, receiver and kind.
ExternalPublish(sender_id, receiver_id, message_type) ==
    /\ published < MaxExternal
    /\ published' = published + 1
    /\ PublishAll(queue, procs, sender_id,
                  << Send(receiver_id, message_type, "") >>)
    /\ UNCHANGED << subscribers, invoked, unheard >>
    /\ UNCHANGED << taskVars, agentVars, registryVars >>

\* _message_processor dequeues a message and awaits the receiver's
\* _handle_message, which publishes what process_message sends and returns.
ExchangeHandle(p, target, scores, present) ==
    /\ procs[p] = "wait"
    /\ queue # << >>
    /\ LET message == Head(queue)
           agent_id == Route(subscribers, message)
           sends == IF HasSubscriber(subscribers, message.receiver_id)
                    THEN process_message(agent_id, message, target, scores,
                                         present)
                    ELSE << >>
       IN  PublishAll(Tail(queue), procs, agent_id, sends)
    /\ UNCHANGED << subscribers, published, invoked, unheard >>
    /\ UNCHANGED << taskVars, agentVars, registryVars >>

ExchangeNext ==
    \/ \E s \in Roles \cup {SYSTEM}, m \in ExternalMessages :
            ExternalPublish(s, m.receiver_id, m.message_type)
    \/ \E p \in Procs, target \in Roles, scores \in ExchangeScores,
          present \in BOOLEAN : ExchangeHandle(p, target, scores, present)

\* The exchange under the event loop: a processor with a message to take is
\* eventually resumed, and every handler returns.
ExchangeSpec ==
    /\ ExchangeInit
    /\ [][ExchangeNext]_vars
    /\ WF_vars(\E p \in Procs, target \in Roles, scores \in ExchangeScores,
                  present \in BOOLEAN :
                    ExchangeHandle(p, target, scores, present))

\* The agents on their bus, no task created.
AgentSpec == AgentSystemInit /\ [][AgentNext]_vars

\* The agents on the in-memory bus, where unsubscribe cannot raise, with no
\* agent started again after it was stopped.
HaltNext ==
    \/ \E a \in AgentNames : StopAgent(a)
    \/ AddSubordinate(DAEDALUS)
    \/ \E flag \in BOOLEAN : SetVetoPower(flag)
    \/ \E target \in AgentNames, scores \in Scores : PerformAudit(target, scores)
    \/ \E p \in Procs : HandleMessage(p, FALSE)
    \/ EmergencyHalt({})

HaltSpec == AgentSystemInit /\ [][HaltNext]_vars

\* The agents staying started; the event loop runs the message processor,
\* whose steps never wait, whenever a message is queued.
AgentRunSpec ==
    /\ AgentSystemInit
    /\ [][AgentRunNext]_vars
    /\ WF_vars(\E p \in Procs : HandleMessage(p, FALSE) \/ HandleMessage(p, TRUE))

\* The task state machine alone: the bus stays as constructed.
TaskSpec == Init /\ [][TaskNext]_vars

\* The event bus alone: no task is created.
BusSpec == Init /\ [][BusNext]_vars

\* The event bus under the event loop's scheduling: a processor whose
\* queue.get() can return is eventually resumed.  Nothing makes an awaited
\* callback return.
BusLoopSpec ==
    /\ Init
    /\ [][BusNext]_vars
    /\ WF_vars(\E p \in Procs : Deliver(p))

\* AgentManager.get_agent(str(task.agent_id)): the managed agent the tasks
\* are submitted to is the specialist.
AgentOf(agent_id) == DAEDALUS

\* Tasks executed while agents are stopped and started: neither
\* TaskService.execute_task nor BaseAgent.execute_task reads _is_active.
HaltedNext ==
    \/ \E a \in AgentIds : CreateTask(a)
    \/ \E c \in Calls, t \in TaskIds, s \in SafetyResults :
            ServiceExecuteTask(c, t, s)
    \/ \E c \in Calls, t \in TaskIds, s \in SafetyResults :
            AgentExecuteTask(c, t, s)
    \/ \E c \in Calls, x \in ExcTexts : ExecuteFinish(c, "none", Some(x))
    \/ \E c \in Calls, r \in Payloads : ExecuteFinish(c, r, None)
    \/ \E a \in AgentNames : StartAgent(a)
    \/ \E a \in AgentNames : StopAgent(a)
    \/ \E failing \in SUBSET AgentNames : EmergencyHalt(failing)

HaltedSpec == AgentSystemInit /\ [][HaltedNext]_vars

\* ------------------------------------------------- task state machine
Terminal == {COMPLETED, FAILED, CANCELLED}

\* The transition graph of the task state machine.
Graph ==
    { << PENDING, IN_PROGRESS >>, << IN_PROGRESS, COMPLETED >>,
      << IN_PROGRESS, FAILED >>, << PENDING, CANCELLED >>,
      << IN_PROGRESS, CANCELLED >> }

\* The step is an execute_task call rejected by the safety pre-check: the
\* code assigns IN_PROGRESS and then FAILED to the status without suspending.
RejectedBySafety(t) ==
    /\ \E c \in Calls : calls[c].pc = "idle" /\ calls'[c] = Returned(t)
    /\ tasks'[t].error = Some("Safety check failed")

\* The call c starts in this step (execute_task is entered), on task t.
Starts(c, t) ==
    calls[c].pc = "idle" /\ calls'[c].pc # "idle" /\ calls'[c].task = t

\* The call c returns in this step, on task t.
Returns(c, t) ==
    calls[c].pc # "done" /\ calls'[c].pc = "done" /\ calls'[c].task = t

\* No other call than c was ever made on task t.
OnlyCall(c, t) == \A d \in Calls : d # c => calls[d].task # t

\* C1: every change of a task's status is an edge of the transition graph
\* (Pending->InProgress, InProgress->Completed, InProgress->Failed,
\* Pending->Cancelled, InProgress->Cancelled), so a Completed, Failed or
\* Cancelled status never changes again.
C1_StatusFollowsGraph ==
    [][ \A t \in DOMAIN tasks :
          tasks'[t].status # tasks[t].status =>
            \/ << tasks[t].status, tasks'[t].status >> \in Graph
            \/ /\ RejectedBySafety(t)
               /\ << tasks[t].status, IN_PROGRESS >> \in Graph
               /\ << IN_PROGRESS, tasks'[t].status >> \in Graph ]_vars

\* C2: execute_task on a task whose status is Completed, Failed or Cancelled
\* does not invoke the role-specific action and leaves the task's status,
\* result, error and completed_at unchanged.
C2_TerminalExecuteIsNoOp ==
    [][ \A c \in Calls, t \in DOMAIN tasks :
          Starts(c, t) /\ tasks[t].status \in Terminal =>
            /\ calls'[c].pc # "action"
            /\ tasks'[t].status = tasks[t].status
            /\ tasks'[t].result = tasks[t].result
            /\ tasks'[t].error = tasks[t].error
            /\ tasks'[t].completed_at = tasks[t].completed_at ]_vars

\* C3: when cancel_task returned True while an execute_task call was suspended
\* in the role-specific action, then at the return of execute_task the task
\* (the returned object and the stored one) is Cancelled and has not taken the
\* action's result.
C3_CancelledResultDiscarded ==
    [][ \A c \in Calls, t \in DOMAIN tasks :
          Returns(c, t) /\ calls[c].cancelled =>
            /\ tasks'[t].status = CANCELLED
            /\ lastSaved'[t].status = CANCELLED
            /\ tasks'[t].result = tasks[t].result ]_vars

\* C4: of the execute_task calls on one task that overlap in time, at most
\* one is inside the role-specific action.
C4_ActionRunsOncePerTask ==
    \A c \in Calls, d \in Calls :
        calls[c].pc = "action" /\ calls[d].pc = "action"
            /\ calls[c].task = calls[d].task => c = d

\* What cancel_task returns for the id t in the current state.
CancelReturns(t) == ENABLED CancelTask(t, TRUE)

\* C5: cancel_task returns True exactly when the stored task is Pending or
\* InProgress, and then the status is Cancelled; otherwise (a Completed,
\* Failed or Cancelled task, or an id the repository does not hold) it returns
\* False and no task and no repository entry changes.
C5_CancelContract ==
    /\ [] \A t \in TaskIds :
            /\ CancelReturns(t) <=>
                    (t \in storage /\ tasks[t].status \in {PENDING, IN_PROGRESS})
            /\ (ENABLED CancelTask(t, FALSE)) <=> ~ CancelReturns(t)
    /\ [][ \A t \in TaskIds, r \in BOOLEAN :
            CancelTask(t, r) =>
              /\ r => /\ tasks'[t].status = CANCELLED
                      /\ lastSaved'[t].status = CANCELLED
                      /\ \A u \in DOMAIN tasks : u # t => tasks'[u] = tasks[u]
              /\ ~ r => /\ tasks' = tasks
                        /\ storage' = storage
                        /\ lastSaved' = lastSaved ]_vars

\* A task has been cancelled: cancel_task has returned True for it.
C5_Witness ==
    \E t \in DOMAIN tasks :
        tasks[t].status = CANCELLED /\ lastSaved[t].status = CANCELLED

\* C6: when the role-specific action raises, execute_task returns (the call
\* is done) with the task Failed, its error the exception text, and that
\* state is the one saved in the repository.
C6_ExceptionBecomesFailed ==
    [][ \A c \in Calls, x \in ExcTexts :
          ExecuteFinish(c, "none", Some(x)) =>
            LET t == calls[c].task
            IN  /\ calls'[c].pc = "done"
                /\ tasks'[t].status = FAILED
                /\ tasks'[t].error = Some(x)
                /\ t \in storage'
                /\ lastSaved'[t].status = FAILED
                /\ lastSaved'[t].error = Some(x) ]_vars

\* An execute_task call has returned a task failed by a raised exception.
C6_Witness ==
    \E c \in Calls, x \in ExcTexts :
        /\ calls[c].pc = "done"
        /\ tasks[calls[c].task].status = FAILED
        /\ tasks[calls[c].task].error = Some(x)

\* C7: whenever BaseAgent.execute_task returns, the last value saved for the
\* task has the status, result and error of the returned task.
C7_ReturnedStateIsSaved ==
    [][ \A c \in Calls, t \in DOMAIN tasks :
          Returns(c, t) =>
            /\ lastSaved'[t].status = tasks'[t].status
            /\ lastSaved'[t].result = tasks'[t].result
            /\ lastSaved'[t].error = tasks'[t].error ]_vars

\* What C8 promises of a task when its only execute_task call returns.
ExecutedOnce(task) ==
    /\ task.status \in {COMPLETED, FAILED}
    /\ task.updated_at >= task.created_at
    /\ (task.completed_at # None) <=> (task.status = COMPLETED)

\* C8: a task that was Pending when its only execute_task call started, with
\* no cancel_task succeeding meanwhile, is Completed or Failed when the call
\* returns, with updated_at >= created_at and completed_at set iff Completed.
C8_SingleExecution ==
    [][ \A c \in Calls, t \in DOMAIN tasks :
          /\ Returns(c, t)
          /\ OnlyCall(c, t)
          /\ IF calls[c].pc = "idle"
             THEN tasks[t].status = PENDING
             ELSE calls[c].fresh /\ ~ calls[c].cancelled
          => ExecutedOnce(tasks'[t]) ]_vars

\* A task was executed once, later than it was created, and is Completed.
C8_Witness ==
    \E c \in Calls :
        /\ calls[c].pc = "done"
        /\ OnlyCall(c, calls[c].task)
        /\ tasks[calls[c].task].status = COMPLETED
        /\ tasks[calls[c].task].completed_at # None
        /\ tasks[calls[c].task].updated_at > tasks[calls[c].task].created_at

\* ------------------------------------------------------ event bus
\* C9: per receiver, the callbacks are invoked in the order in which the
\* messages were published: of two delivered messages for the same receiver,
\* the one published first is the one handed to a callback first.
C9_PublishOrderPerReceiver ==
    \A i \in DOMAIN invoked, j \in DOMAIN invoked :
        /\ invoked[i].message.receiver_id = invoked[j].message.receiver_id
        /\ invoked[i].message.id < invoked[j].message.id
        => i < j

\* Two messages of one sender for one receiver have both been delivered,
\* and a second processor was alive when the later one was.
C9_Witness ==
    /\ \E i \in DOMAIN invoked, j \in DOMAIN invoked :
        /\ i < j
        /\ invoked[i].message.receiver_id = invoked[j].message.receiver_id
        /\ invoked[i].message.sender_id = invoked[j].message.sender_id
    /\ \A p \in Procs : procs[p] # "none"

\* C10: a step invokes at most one callback, for a message no callback was
\* invoked for before, and the callback is the one subscribed under the
\* message's receiver when the message is dequeued.
C10_AtMostOnceToReceiver ==
    [][ invoked' # invoked =>
          /\ Len(invoked') = Len(invoked) + 1
          /\ SubSeq(invoked', 1, Len(invoked)) = invoked
          /\ LET e == invoked'[Len(invoked')]
             IN  /\ e.callback = subscribers[e.message.receiver_id]
                 /\ e.callback # NoHandler
                 /\ \A i \in DOMAIN invoked :
                        invoked[i].message.id # e.message.id ]_vars

\* Messages for both identities have been delivered, each to the callback
\* of its receiver, while the two identities had different callbacks.
C10_Witness ==
    \E i \in DOMAIN invoked, j \in DOMAIN invoked :
        /\ invoked[i].message.receiver_id # invoked[j].message.receiver_id
        /\ invoked[i].callback # invoked[j].callback
        /\ invoked[j].message.sender_id = invoked[i].message.receiver_id

\* The number of queued (published, not yet dequeued) messages for receiver_id.
Pending(receiver_id) ==
    Cardinality({ i \in DOMAIN queue : queue[i].receiver_id = receiver_id })

\* The largest per-receiver capacity that the publishes of the model can
\* exceed; the queue of the code is asyncio.Queue() with no maxsize.
Capacity == MaxMsgs - 1

\* C11: the bus keeps a bounded queue per receiver: the messages queued for
\* one receiver never exceed a fixed capacity, and a publish made while the
\* receiver's queue is full does not enqueue (it fails with a capacity error).
C11_BoundedQueuePerReceiver ==
    /\ [] \A r \in BusIds : Pending(r) <= Capacity
    /\ [][ \A s \in BusIds, r \in BusIds :
             Publish(s, r) /\ Pending(r) >= Capacity => queue' = queue ]_vars

C13_NoDeliveryAfterUnsubscribe ==
    [][ invoked' # invoked =>
          LET e == invoked'[Len(invoked')]
          IN  /\ e.message.id \notin unheard
              /\ e.callback = subscribers[e.message.receiver_id] ]_vars

\* ------------------------------------------------------ the agents
\* The latest callback invocation raised inside process_message.
Raised == handled # None /\ handled[1].raised

\* C14: when the handling of a message raises, the exception reaches neither
\* the processor nor a publisher: the step ends with the message consumed, the
\* processor waiting for the next message and the bus still running; and
\* every message queued, then or later, for a started agent is dequeued and
\* handed to that agent's handler, so the queue always drains.
C14_HandlerExceptionIsolated ==
    /\ [][ \A p \in Procs :
             HandleMessage(p, TRUE) =>
                /\ queue' = Tail(queue)
                /\ procs'[p] = "wait"
                /\ running' = running
                /\ handled' = Some([ message |-> Head(queue),
                      callback |-> Head(queue).receiver_id, raised |-> TRUE ])
          ]_vars
    /\ [][ Raised /\ queue' # queue /\ audits' = audits =>
             /\ handled'[1].message = Head(queue)
             /\ handled'[1].callback = Head(queue).receiver_id ]_vars
    /\ (queue # << >>) ~> (queue = << >>)

\* The handling of a message has just raised while another message is
\* queued, and the processor is waiting for it.
C14_Witness ==
    /\ Raised
    /\ queue # << >>
    /\ running
    /\ \E p \in Procs : procs[p] = "wait"

\* The messages a perform_comprehensive_audit or emergency_halt step has
\* published: what the step appended to the queue.
NewMessages == SubSeq(queue', Len(queue) + 1, Len(queue'))

\* The interlock's halt directive: an emergency_command whose content type is
\* emergency_halt.
HaltDirective(message) ==
    message.message_type = "emergency_command" /\ message.type = "emergency_halt"

\* The veto notification of _exercise_veto_power.
VetoNotification(message) == message.type = "veto_notification"

\* The messages of q addressed to a.
To(q, a) == SelectSeq(q, LAMBDA message : message.receiver_id = a)

\* The halt directives, and the veto notifications, among the messages of q.
Halts(q) == SelectSeq(q, HaltDirective)
VetoNotifications(q) == SelectSeq(q, VetoNotification)

\* At least one of the five checks has severity critical.
HasCritical(audit_results) ==
    \E i \in DOMAIN audit_results : audit_results[i].severity = "critical"

\* The direct subordinates of the interlock.
InterlockSubordinates ==
    { subordinates[THEMIS][i] : i \in DOMAIN subordinates[THEMIS] }

\* C15: an audit of `target` with a critical check, veto power enabled,
\* publishes exactly one halt directive to target, none to any other agent,
\* and exactly one veto notification to each direct subordinate of the
\* interlock (none to anybody else).
C15_OneHaltToTarget ==
    [][ audits' # audits => \A target \in AgentNames, scores \in Scores :
          /\ veto
          /\ HasCritical(AuditResults(scores))
          /\ PerformAudit(target, scores)
          => \A a \in AgentNames :
                /\ Len(Halts(To(NewMessages, a)))
                        = IF a = target THEN 1 ELSE 0
                /\ Len(VetoNotifications(To(NewMessages, a)))
                        = IF a \in InterlockSubordinates THEN 1 ELSE 0 ]_vars

\* An audit of the coordinator has vetoed: the halt directive for it and the
\* veto notification for the interlock's subordinate are queued.
C15_Witness ==
    /\ veto
    /\ InterlockSubordinates = {DAEDALUS}
    /\ Len(Halts(To(queue, PROMETHEUS))) = 1
    /\ Len(Halts(To(queue, DAEDALUS))) = 0
    /\ Len(VetoNotifications(To(queue, DAEDALUS))) = 1

\* All the checks of the audit have status "passed".
AllPassed(audit_results) ==
    \A i \in DOMAIN audit_results : audit_results[i].status = "passed"

\* A safety_alert message (the report to the supervisor or a broadcast).
SafetyAlert(message) == message.message_type = "safety_alert"

\* The safety_alert messages among those of q.
Alerts(q) == SelectSeq(q, SafetyAlert)

\* C16: an audit whose five checks all have status "passed", whatever the
\* scores, returns five checks, publishes no safety_alert, no halt directive
\* and no veto notification, and leaves the target's active flag unchanged.
C16_AllPassedIsSilent ==
    [][ audits' # audits => \A target \in AgentNames, scores \in Scores :
          AllPassed(AuditResults(scores)) /\ PerformAudit(target, scores) =>
            /\ Len(AuditResults(scores)) = 5
            /\ \A a \in AgentNames :
                /\ Len(Alerts(To(NewMessages, a))) = 0
                /\ Len(Halts(To(NewMessages, a))) = 0
                /\ Len(VetoNotifications(To(NewMessages, a))) = 0
            /\ active'[target] = active[target] ]_vars

\* The message the handler of `callback` was invoked with, when the latest
\* invocation was of that handler for a message addressed to it.
HandledBy(callback) ==
    IF /\ handled # None
       /\ handled[1].callback = callback
       /\ handled[1].message.receiver_id = callback
    THEN << handled[1].message >>
    ELSE << >>

\* The report of _trigger_safety_alert: a safety_alert sent by the interlock.
AlertReport(message) == SafetyAlert(message) /\ message.sender_id = THEMIS

\* The interlock's reports among the messages of q.
Reports(q) == SelectSeq(q, AlertReport)

\* C17: veto enabled, the hierarchy of setup_agent_hierarchy, all agents
\* started, the processor running.  An audit of the specialist whose
\* containment score is below the high threshold yields a critical
\* containment check and publishes the halt directive to the specialist and
\* the safety_alert to the coordinator; and a queued halt directive for the
\* specialist leads to the specialist's handler being invoked with it, a
\* queued safety_alert of the interlock to the coordinator's handler being
\* invoked with it.
C17_BreachReachesHandlers ==
    /\ [][ audits' # audits => \A scores \in Scores :
             /\ veto
             /\ scores.containment < ThresholdHigh
             /\ PerformAudit(DAEDALUS, scores)
             => /\ AuditResults(scores)[5].severity = "critical"
                /\ Len(Halts(To(NewMessages, DAEDALUS))) = 1
                /\ Len(Reports(To(NewMessages, PROMETHEUS))) = 1 ]_vars
    /\ (Len(Halts(To(queue, DAEDALUS))) > 0)
            ~> Halts(HandledBy(DAEDALUS)) # << >>
    /\ (Len(Reports(To(queue, PROMETHEUS))) > 0)
            ~> Reports(HandledBy(PROMETHEUS)) # << >>

\* The specialist's handler has been invoked with the halt directive, the
\* coordinator's with the alert before it, and the coordinator's broadcast of
\* the alert is queued behind.
C17_Witness ==
    /\ Halts(HandledBy(DAEDALUS)) # << >>
    /\ Len(Reports(To(queue, PROMETHEUS))) = 0
    /\ \E i \in DOMAIN queue :
            SafetyAlert(queue[i]) /\ queue[i].sender_id = PROMETHEUS

\* C18: once the handler of an agent has been invoked with the interlock's
\* halt directive, the agent is halted: its active flag is false and it is
\* not subscribed to the bus.
C18_HaltDirectiveHalts ==
    \A a \in AgentNames :
        Halts(HandledBy(a)) # << >> =>
            ~ active[a] /\ subscribers[a] = NoHandler

\* C19: while the veto flag is disabled no step publishes a halt directive or
\* a veto notification, whatever an audit finds; an audit with a critical
\* check still publishes the safety_alert report to the interlock's
\* supervisor.
C19_DisabledVetoIsAdvisory ==
    /\ [][ ~ veto => \A a \in AgentNames :
             /\ Len(Halts(To(queue', a)))
                    <= Len(Halts(To(queue, a)))
             /\ Len(VetoNotifications(To(queue', a)))
                    <= Len(VetoNotifications(To(queue, a))) ]_vars
    /\ [][ audits' # audits => \A target \in AgentNames, scores \in Scores :
             /\ ~ veto
             /\ HasCritical(AuditResults(scores))
             /\ PerformAudit(target, scores)
             => Len(Reports(To(NewMessages, Supervisor(THEMIS)[1]))) = 1
          ]_vars

\* With the veto disabled an audit found a critical check: its report to the
\* supervisor is queued and no halt directive or veto notification is.
C19_Witness ==
    /\ ~ veto
    /\ audits > 0
    /\ Len(Reports(To(queue, PROMETHEUS))) = 1
    /\ \A a \in AgentNames :
        /\ Len(Halts(To(queue, a))) = 0
        /\ Len(VetoNotifications(To(queue, a))) = 0

\* C20: emergency_halt can always run to its return, whichever stop() calls
\* raise; it calls stop() on every managed agent (each is then inactive), and
\* every agent whose stop() did not raise is unsubscribed from the bus.
C20_EmergencyHaltStopsAll ==
    /\ [] (audits < MaxAudits =>
            \A failing \in SUBSET AgentNames : ENABLED EmergencyHalt(failing))
    /\ [][ \A failing \in SUBSET AgentNames :
             EmergencyHalt(failing) =>
                /\ \A a \in AgentNames : ~ active'[a]
                /\ \A a \in AgentNames \ failing :
                        subscribers'[a] = NoHandler ]_vars

\* emergency_halt has returned although the coordinator's stop() raised:
\* every agent is inactive, the coordinator alone is still subscribed, and
\* the halt messages are published.
C20_Witness ==
    /\ \A a \in AgentNames : ~ active[a]
    /\ subscribers[PROMETHEUS] # NoHandler
    /\ \A a \in AgentNames \ {PROMETHEUS} : subscribers[a] = NoHandler
    /\ \E i \in DOMAIN queue : queue[i].sender_id = SYSTEM

\* ------------------------------------------------------ the registry
\* The identities in the subordinate list of agent_id.
SubordinatesOf(objects, agent_id) ==
    { objects[agent_id].subordinates[i] :
        i \in DOMAIN objects[agent_id].subordinates }

\* The managed agents that list agent_id as a subordinate.
ParentsOf(keys, objects, agent_id) ==
    { parent \in { keys[i] : i \in DOMAIN keys } :
        agent_id \in SubordinatesOf(objects, parent) }

\* The managed agents reachable from the set `from` along at most n
\* subordinate edges between managed agents.
RECURSIVE Below(_, _, _, _)
Below(keys, objects, from, n) ==
    IF n = 0 THEN from
    ELSE Below(keys, objects,
               from \cup { child \in { keys[i] : i \in DOMAIN keys } :
                    \E parent \in from :
                        child \in SubordinatesOf(objects, parent) },
               n - 1)

\* The managed subordinates of agent_id and everything below them.
DescendantsOf(keys, objects, agent_id) ==
    Below(keys, objects,
          { child \in { keys[i] : i \in DOMAIN keys } :
                child \in SubordinatesOf(objects, agent_id) },
          Len(keys))

\* The subordinate relation over the managed agents is a forest: no cycle,
\* at most one parent per agent, no identity twice in one list.
IsForest(keys, objects) ==
    \A agent_id \in { keys[i] : i \in DOMAIN keys } :
        /\ agent_id \notin DescendantsOf(keys, objects, agent_id)
        /\ Cardinality(ParentsOf(keys, objects, agent_id)) <= 1
        /\ \A i, j \in DOMAIN objects[agent_id].subordinates :
                objects[agent_id].subordinates[i]
                    = objects[agent_id].subordinates[j] => i = j

\* C21: when remove_agent(a) has returned True, a is in no managed agent's
\* subordinate list, a's own supervisor pointer is cleared, a is inactive
\* and unsubscribed, and the remaining hierarchy is acyclic with at most one
\* parent per agent.
C21_RemoveSevers ==
    [][ \A a \in ObjectIds :
          remove_agent(a) =>
            /\ ParentsOf(managed', instances', a) = {}
            /\ instances'[a].supervisor = None
            /\ ~ instances'[a].is_active
            /\ subscribers'[a] = NoHandler
            /\ IsForest(managed', instances') ]_vars

\* C22: whatever create_agent, setup_agent_hierarchy, remove_agent,
\* start_agent and stop_agent calls were made, the subordinate relation over
\* the managed agents is acyclic, every agent is in the subordinate list of
\* at most one agent, and no list holds an identity twice.
C22_HierarchyIsForest == IsForest(managed, instances)

\* A hierarchy was set up (an agent with two subordinates, one of them
\* stopped) and an agent was removed afterwards.
C22_Witness ==
    /\ Len(managed) < Len(instances)
    /\ \E parent \in Managed :
        /\ Cardinality(SubordinatesOf(instances, parent)) >= 2
        /\ \E child \in SubordinatesOf(instances, parent) :
                ~ instances[child].is_active

\* The edge parent -> child would give child a second parent or close a
\* cycle.
BadEdge(keys, objects, parent, child) ==
    \/ ParentsOf(keys, objects, child) \ {parent} # {}
    \/ parent = child
    \/ parent \in DescendantsOf(keys, objects, child)

\* C23: set_supervisor on an agent that has another supervisor, and
\* add_subordinate of an agent listed under another agent or of an agent
\* the new parent is below (itself included), are rejected: no supervisor
\* pointer and no subordinate list changes.
C23_BadEdgeRejected ==
    [][ \A a \in ObjectIds, s \in ObjectIds :
          \/ /\ EdgeSetSupervisor(a, s)
             /\ instances[a].supervisor \notin {None, Some(s)}
          \/ /\ EdgeAddSubordinate(a, s)
             /\ BadEdge(managed, instances, a, s)
          => instances' = instances ]_vars

\* C24: at most one managed agent has the type THEMIS.
C24_OneOverseer ==
    Cardinality({ a \in Managed : instances[a].type = THEMIS }) <= 1

\* The value strings of the roles, in some letter cases.
ValueQueries == TypeQueries \ {"AgentType.THEMIS"}

\* The first-created managed agent whose type is agent_type, or None.
FirstOfType(keys, objects, agent_type) ==
    LET found == SelectSeq(keys, LAMBDA a : objects[a].type = agent_type)
    IN  IF found = << >> THEN None ELSE Some(Head(found))

\* C25: get_agent_by_type, called with the value string of a role in any
\* letter case, returns the first-created managed agent of that role, and
\* None only when no managed agent has the role.
C25_LookupByRole ==
    \A query \in ValueQueries :
        get_agent_by_type(Registry(managed, instances, subscribers), query)
            = FirstOfType(managed, instances, Lower(query))

\* The managed agents of the type.
OfType(keys, objects, agent_type) ==
    { a \in { keys[i] : i \in DOMAIN keys } : objects[a].type = agent_type }

\* agent_id is in the list of supervisor_id and points to it.
Under(objects, agent_id, supervisor_id) ==
    /\ agent_id \in SubordinatesOf(objects, supervisor_id)
    /\ objects[agent_id].supervisor = Some(supervisor_id)

\* C26: setup_agent_hierarchy on an empty registry leaves exactly one agent
\* of each of the five types; Prometheus has no supervisor; Daedalus,
\* Odysseus and Themis are under Prometheus; Logos is under Daedalus.
C26_CanonicalTree ==
    [][ managed = << >> /\ setup_agent_hierarchy =>
          /\ \A t \in AgentType :
                Cardinality(OfType(managed', instances', t)) = 1
          /\ \A p \in OfType(managed', instances', PROMETHEUS) :
                /\ instances'[p].supervisor = None
                /\ \A t \in {DAEDALUS, ODYSSEUS, THEMIS} :
                    \A a \in OfType(managed', instances', t) :
                        Under(instances', a, p)
          /\ \A d \in OfType(managed', instances', DAEDALUS) :
                \A l \in OfType(managed', instances', LOGOS) :
                    Under(instances', l, d) ]_vars

\* The hierarchy fields of every object are the same in both.
SameHierarchy(objects, others) ==
    \A a \in DOMAIN objects :
        /\ others[a].subordinates = objects[a].subordinates
        /\ others[a].supervisor = objects[a].supervisor

C28_UnknownKindRejected ==
    handled # None =>
        (handled[1].message.message_type
                \notin HandledKinds(handled[1].callback)
            => handled[1].raised)

\* What get_by_id returns for a stored key: the object the key refers to,
\* with the field values it has now.
Retrieved(t) == tasks[t]

\* C29: persisted task state changes only through save and delete: for every
\* stored task, get_by_id returns the field values given to the last save,
\* whatever was done to the caller's task object since.
C29_SavedValueIsRetrieved ==
    \A t \in DOMAIN tasks :
        get_by_id(storage, t) => Retrieved(t) = lastSaved[t]

\* A Python str, and a value of another class (an Enum member, an AgentId):
\* values of different classes never compare equal.
Str(text) == [ class |-> "str", value |-> text ]
Object(class, value) == [ class |-> class, value |-> value ]

\* getattr(task, key): status is a TaskStatus member, agent_id an AgentId.
getattr(task, key) ==
    CASE key = "status" -> Object("TaskStatus", task.status)
      [] key = "agent_id" -> Object("AgentId", task.agent_id)

\* _storage.values(): the stored objects in insertion order, written as
\* their keys; tasks are first saved in creation order.
values(store, objects) ==
    SelectSeq([ t \in DOMAIN objects |-> t ], LAMBDA t : t \in store)

\* The entity has every attribute of the criteria and none differs (!=) from
\* the criteria's value.
Matches(task, criteria) ==
    \A key \in DOMAIN criteria : ~ (getattr(task, key) # criteria[key])

\* InMemoryRepository.find_by_criteria
find_by_criteria(store, objects, criteria) ==
    SelectSeq(values(store, objects),
              LAMBDA t : Matches(objects[t], criteria))

\* InMemoryRepository.list_all
list_all(store, objects) == values(store, objects)

\* tasks[offset:min(offset + limit, len(tasks))]
Page(found, limit, offset) ==
    SubSeq(found, offset + 1,
           IF offset + limit < Len(found) THEN offset + limit ELSE Len(found))

\* TaskService.list_tasks: the repository has find_by_criteria, so the manual
\* filtering of the fallback branch never runs.
list_tasks(store, objects, filters, limit, offset) ==
    Page(IF DOMAIN filters # {}
         THEN find_by_criteria(store, objects, filters)
         ELSE list_all(store, objects),
         limit, offset)

\* The filters the service and the router pass: one field, its value a str
\* (TaskStatus.X.value, str(agent_id)).
Filters ==
    { [ k \in {"status"} |-> Str(status) ] : status \in TaskStatus } \cup
    { [ k \in {"agent_id"} |-> Str(a) ] : a \in AgentIds }

Limits == { 1, 2, 100 }
Offsets == { 0, 1 }

\* The stored tasks whose field has the value every filter asks for.
WithValue(store, objects, filters) ==
    SelectSeq(values(store, objects),
              LAMBDA t : \A key \in DOMAIN filters :
                            objects[t][key] = filters[key].value)

\* C30: list_tasks with a filter on status or on agent_id returns exactly the
\* stored tasks whose field has the requested value, restricted to the
\* positions [offset, offset + limit) of that result.
C30_FilteredListing ==
    \A filters \in Filters, limit \in Limits, offset \in Offsets :
        list_tasks(storage, tasks, filters, limit, offset)
            = Page(WithValue(storage, tasks, filters), limit, offset)

\* C31: an agent whose active flag is false runs no role-specific action: no
\* step moves a task of a stopped agent to InProgress or to Completed.
C31_StoppedAgentExecutesNothing ==
    [][ \A t \in DOMAIN tasks :
          ( /\ tasks'[t].status # tasks[t].status
            /\ tasks'[t].status \in {IN_PROGRESS, COMPLETED} )
          => active[AgentOf(tasks[t].agent_id)] ]_vars

\* C32: in every state of every task, completed_at is set if and only if the
\* status is Completed.
C32_CompletedAtIffCompleted ==
    \A t \in DOMAIN tasks :
        (tasks[t].completed_at # None) <=> (tasks[t].status = COMPLETED)

\* The message with identity id is in the queue.
Queued(id) == \E i \in DOMAIN queue : queue[i].id = id

\* C33: delivery to one receiver does not wait for another receiver's
\* handler: while the bus is running every queued message is eventually taken
\* from the queue, also when the handler of a message before it never
\* returns.
C33_DeliveryIndependentOfOtherHandlers ==
    \A id \in 1..MaxMsgs :
        Queued(id) ~> (~ Queued(id) \/ ~ running)

\* C34: setup_agent_hierarchy is idempotent: on the registry a call has just
\* left, a further call creates no agent and changes no supervisor pointer
\* and no subordinate list.
C34_SetupIdempotent ==
    [][ setup_agent_hierarchy =>
          LET registry == Registry(managed', instances', subscribers')
          IN  HierarchySetUp(registry) = registry ]_vars

\* C35: every supervisor pointer of a managed agent and every identity in a
\* managed agent's subordinate list refers to an agent that is managed.
C35_NoDanglingEdge ==
    \A a \in Managed :
        /\ instances[a].supervisor # None =>
                instances[a].supervisor[1] \in Managed
        /\ SubordinatesOf(instances, a) \subseteq Managed

\* The _message_processor tasks that have not ended.
Processors == { p \in Procs : procs[p] # "none" }

\* C36: the bus has at most one _message_processor task at any time, across
\* any sequence of publish and stop calls.
C36_OneProcessor == Cardinality(Processors) <= 1

\* A message emergency_halt published.
HaltMessage(message) ==
    message.sender_id = SYSTEM /\ message.message_type = "emergency_halt"

\* emergency_halt has returned: every agent is stopped and unsubscribed.
Halted == \A a \in AgentNames : ~ active[a] /\ subscribers[a] = NoHandler

C38_DeletedStaysDeleted ==
    [][ \A t \in DOMAIN tasks :
          ~ get_by_id(storage, t) => ~ get_by_id(storage', t) ]_vars

\* Status and severity of a check agree: passed goes with low, and high or
\* critical only with failed.
Consistent(check) ==
    /\ check.status = "passed" => check.severity = "low"
    /\ check.severity \in {"high", "critical"} => check.status = "failed"

\* C39: every SafetyCheck an audit produces has consistent status and
\* severity, whatever the scores.
C39_StatusMatchesSeverity ==
    [][ audits' # audits =>
          \A target \in AgentNames, scores \in Scores :
              PerformAudit(target, scores) =>
                  \A i \in DOMAIN AuditResults(scores) :
                      Consistent(AuditResults(scores)[i]) ]_vars

\* C40: with finitely many messages published from outside, the queue
\* eventually becomes empty and stays empty: the replies and broadcasts of
\* the handlers never form an endless exchange.
C40_ExchangeTerminates == <>[](queue = << >>)

\* The coordinator's re-broadcast of a safety alert is queued: a chain of
\* three messages, each published by the handler of the one before.
C40_Witness ==
    /\ published = 1
    /\ \E i \in DOMAIN queue :
        /\ queue[i].sender_id = PROMETHEUS
        /\ queue[i].receiver_id = THEMIS
        /\ queue[i].message_type = "safety_alert"
    /\ \E i \in DOMAIN queue :
        /\ queue[i].sender_id = THEMIS
        /\ queue[i].message_type = "audit_response"

====
